---- MODULE Spec2Model ----
(***************************************************************************)
(* MDFS Pro: the master (master/master.go) and the workers                 *)
(* (worker/worker.go) as one state machine.                                *)
(*                                                                         *)
(* The master's maps (activeNodes, fileIndex, checksums, deletedFiles) are *)
(* functions whose DOMAIN is the map's key set.  Wall-clock time is kept   *)
(* as the outcome of the comparisons the code makes on it: a heartbeat is  *)
(* "live" (time.Since(last) <= 15 s) or "late"; a tombstone is "fresh"     *)
(* (time.Since < 24 h), "old" (>= 24 h, <= 30 d) or "expired" (> 30 d).    *)
(* crc32.ChecksumIEEE on ring positions and keys is an assignment drawn    *)
(* from a bounded family when the system starts and fixed afterwards.      *)
(***************************************************************************)
EXTENDS Integers, Sequences, FiniteSets, TLC

\* ------------------------------------------------------------- universe
Workers == {"w1", "w2"}
Names == {"a.mp4"}
\* payloads a client may upload
Payloads == {"B1", "B2"}
\* what a worker's data directory may hold when the master starts: nothing,
\* or blobs stored while an earlier master process ran
StartDisks == {[x \in S |-> "B1"] : S \in SUBSET Names}

\* NewHashRing(10): virtual positions per worker
Replicas == 10
\* handleUpload asks the ring for this many targets
ReplicaCount == 2

\* upload handlers that may run at once
UploadIds == {1}

\* requests the model lets arrive at the master: uploads, deletes,
\* heartbeats, checksum reports, refused requests
MaxRequests == 4

NoPayload == "none"

\* ------------------------------------------------------------- Go maps
EmptyMap == [x \in {} |-> 0]

Put(m, k, v) == [x \in (DOMAIN m) \cup {k} |-> IF x = k THEN v ELSE m[x]]

Del(m, k) == [x \in (DOMAIN m) \ {k} |-> m[x]]

Elems(s) == {s[i] : i \in 1..Len(s)}

Min(a, b) == IF a < b THEN a ELSE b

\* every ordering of a finite set (the iteration orders of a Go map)
Orderings(S) ==
    {s \in [1..Cardinality(S) -> S] : \A i, j \in 1..Cardinality(S) : s[i] = s[j] => i = j}

\* ------------------------------------------------------------- hashing
\* crc32.ChecksumIEEE(strconv.Itoa(i) + addr) for every worker, and
\* crc32.ChecksumIEEE(key) for every name: one assignment of the family.
\* The hashes lie in 0..31 and the positions of one worker are 3 apart:
\* worker "w1" sits at 0, 3, ..., 27.  With offset 1 worker "w2" shares no
\* position with it; with offset 27 its position 0 equals w1's position 9,
\* as crc32("4http://10.0.100.9:8081") = crc32("5http://10.0.122.170:8081").
Offsets == [w1 : {0}, w2 : {1, 27}]

KeyHashes == {26}

HashValues == 0..31

HashTables ==
    {[vnode |-> [p \in (0..(Replicas - 1)) \X Workers |->
                    (off[p[2]] + 3 * p[1]) % 32],
      key |-> kh] : off \in Offsets, kh \in [Names -> KeyHashes]}

VARIABLES
    crc,            \* the hash assignment in force
    mu,             \* state.mu: "free", or the writer that holds it
    activeNodes,    \* state.activeNodes: addr -> "live" | "late"
    fileIndex,      \* state.fileIndex: name -> set of addrs
    checksums,      \* state.checksums: name -> checksum
    deletedFiles,   \* state.deletedFiles: name -> "fresh" | "old" | "expired"
    ring,           \* state.ring: [nodes, nodeMap]
    disk,           \* per worker: name -> payload stored under data_<port>/
    heartbeat,      \* per worker: the block report in flight to /register
    tombDeletes,    \* <<addr, name>>: deletes scheduled by handleRegister
    uploads,        \* per upload handler: its locals
    del,            \* the delete handler's locals
    reply,          \* the reply the master sent in the step just taken, if any
    hist,           \* history of each name, for stating the claims
    arrived,        \* requests arrived at the master so far
    dir,            \* one worker's data directory, seen call by call: entry -> file
    inodes,         \* the files of that directory: the chunks each holds
    puts,           \* per /upload handler of that worker: its locals
    rm,             \* the /delete handler of that worker: its locals
    copies,         \* <<name, source, target>>: copies the fixer has spawned
    scan            \* the locals of a download handler that ranges over its replica set

\* the data directory of one worker and its handlers, os call by os call
workerVars == <<dir, inodes, puts, rm>>

vars == <<crc, mu, activeNodes, fileIndex, checksums, deletedFiles, ring, disk,
          heartbeat, tombDeletes, uploads, del, reply, hist, arrived, workerVars,
          copies, scan>>

masterVars == <<activeNodes, fileIndex, checksums, deletedFiles, ring>>

\* ------------------------------------------------------------- HashRing
NewHashRing == [nodes |-> <<>>, nodeMap |-> EmptyMap]

RECURSIVE InsertSorted(_, _)
InsertSorted(s, x) ==
    IF s = <<>> THEN <<x>>
    ELSE IF x <= Head(s) THEN <<x>> \o s
    ELSE <<Head(s)>> \o InsertSorted(Tail(s), x)

\* sort.Ints
RECURSIVE SortInts(_)
SortInts(s) == IF s = <<>> THEN <<>> ELSE InsertSorted(SortInts(Tail(s)), Head(s))

\* the loop of AddNode: append the hash, nodeMap[hash] = addr
RECURSIVE AddVirtualNodes(_, _, _)
AddVirtualNodes(h, addr, i) ==
    IF i >= Replicas THEN h
    ELSE LET hash == crc.vnode[<<i, addr>>]
         IN AddVirtualNodes([nodes |-> Append(h.nodes, hash),
                             nodeMap |-> Put(h.nodeMap, hash, addr)], addr, i + 1)

AddNode(h, addr) ==
    LET a == AddVirtualNodes(h, addr, 0)
    IN [a EXCEPT !.nodes = SortInts(@)]

\* sort.Search(len(nodes), nodes[i] >= hash), as a 1-based index:
\* Len(nodes) + 1 when no position is >= hash
Search(nodes, hash) ==
    LET hits == {i \in 1..Len(nodes) : nodes[i] >= hash}
    IN IF hits = {} THEN Len(nodes) + 1
       ELSE CHOOSE i \in hits : \A j \in hits : i <= j

\* the physical nodes GetNodes believes the ring to hold
RingCapacity(h) == Cardinality(DOMAIN h.nodeMap) \div Replicas

\* the clockwise walk of GetNodes
RECURSIVE Walk(_, _, _, _)
Walk(h, idx, res, count) ==
    IF Len(res) < count /\ Len(res) < RingCapacity(h)
    THEN LET i == IF idx = Len(h.nodes) + 1 THEN 1 ELSE idx
             addr == h.nodeMap[h.nodes[i]]
         IN Walk(h, i + 1, IF addr \in Elems(res) THEN res ELSE Append(res, addr), count)
    ELSE res

\* a walk that takes every address for one it has seen already
RECURSIVE WalkStepsBlind(_, _, _, _, _)
WalkStepsBlind(h, idx, res, count, n) ==
    IF n > Len(h.nodes) THEN n
    ELSE IF Len(res) < count /\ Len(res) < RingCapacity(h)
    THEN WalkStepsBlind(h, (IF idx = Len(h.nodes) + 1 THEN 1 ELSE idx) + 1, res, count, n + 1)
    ELSE n

\* the passes through the loop of GetNodes, n so far, counted as long as
\* they are not more than the positions of the ring
RECURSIVE WalkSteps(_, _, _, _, _)
WalkSteps(h, idx, res, count, n) ==
    IF n > Len(h.nodes) THEN n
    ELSE IF Len(res) < count /\ Len(res) < RingCapacity(h)
    THEN LET i == IF idx = Len(h.nodes) + 1 THEN 1 ELSE idx
             addr == h.nodeMap[h.nodes[i]]
         IN WalkSteps(h, i + 1, IF addr \in Elems(res) THEN res ELSE Append(res, addr),
                      count, n + 1)
    ELSE n

GetNodes(h, hash, count) ==
    IF Len(h.nodes) = 0 THEN <<>>
    ELSE Walk(h, Search(h.nodes, hash), <<>>, count)

\* newRing := NewHashRing(10); for a := range activeNodes { newRing.AddNode(a) }
RECURSIVE BuildRing(_)
BuildRing(order) ==
    IF order = <<>> THEN NewHashRing
    ELSE AddNode(BuildRing(SubSeq(order, 1, Len(order) - 1)), order[Len(order)])

\* ------------------------------------------------------------- records
NoReport == [sent |-> FALSE, files |-> {}]

IdleUpload == [pc |-> "idle", name |-> "", data |-> NoPayload, targets |-> <<>>,
               waiting |-> {}, acked |-> {}, success |-> {}, clean |-> TRUE]

IdleDelete == [pc |-> "idle", name |-> "", waiting |-> {}, success |-> {}]

\* the reply "OK:<count>" of handleDelete is body "OK" with its count
NoReply == [op |-> "none", name |-> "", status |-> 0, body |-> "", count |-> 0]

\* no download handler is in its loop; in the loop: nodes, the map the
\* handler took from fileIndex and ranges over, as it was when it was taken
NoScan == [pc |-> "idle", name |-> "", nodes |-> {}]

\* the step sends no reply to a client
Silent == reply' = NoReply

Reply(op, name, status, body, count) ==
    [op |-> op, name |-> name, status |-> status, body |-> body, count |-> count]

\* History kept for stating the claims, not program state.  In an upload
\* handler: clean, no delete of the name was running when the handler began
\* or has begun since, no other upload has stored the name and no copy of the name
\* has been removed since the handler began.
\* per name: lastUpload, the payload of the last upload that replied 200 with
\* no upload or delete of the name begun since; uploadedSince, an upload
\* replied 200 after the last tombstone was stamped; unacked, the replicas
\* that did not acknowledge the delete that stamped the last tombstone;
\* protected, the workers whose copy was written by an upload that replied
\* 200 while clean, no delete of the name having begun and no other upload
\* having overwritten the copy since; rebuilding, the master has so far only
\* processed block reports as far as the name is concerned (no upload or
\* delete of the name has begun, no worker has been expired); while
\* rebuilding: reported, the workers whose processed block report held the
\* name, and absent, those whose processed block report did not.
NoHistory == [lastUpload |-> NoPayload, uploadedSince |-> FALSE, unacked |-> {},
              protected |-> {}, rebuilding |-> TRUE, reported |-> {}, absent |-> {},
              revived |-> FALSE]

\* the name stops being rebuilt from block reports alone
Touched(h, name) ==
    [h EXCEPT ![name].rebuilding = FALSE, ![name].reported = {}, ![name].absent = {},
              ![name].revived = FALSE]

\* the block report of addr has been processed
Reported(h, addr, files) ==
    [f \in Names |->
        IF ~h[f].rebuilding THEN h[f]
        ELSE IF f \in files
             THEN [h[f] EXCEPT !.reported = @ \cup {addr}, !.absent = @ \ {addr}]
             ELSE [h[f] EXCEPT !.absent = @ \cup {addr}, !.reported = @ \ {addr}]]

\* the block report has dropped the tombstones of these names
Revived(h, dropped) ==
    [f \in Names |-> IF f \in dropped THEN [h[f] EXCEPT !.revived = TRUE] ELSE h[f]]

\* the handlers of name lose clean
Disturb(ups, name) ==
    [u \in DOMAIN ups |->
        IF ups[u].pc = "fanout" /\ ups[u].name = name
        THEN [ups[u] EXCEPT !.clean = FALSE] ELSE ups[u]]

\* fmt.Sprintf("%08x", crc32 of the payload)
Checksum(data) == <<"crc32", data>>

\* a register that takes every tombstone for younger than 24 h
WithinResurrectionWindowAlways(f) == TRUE

\* a register that never consults the tombstone's age
WithinResurrectionWindowNever(f) == FALSE

\* time.Since(deleteTime) < 24*time.Hour
WithinResurrectionWindow(f) == deletedFiles[f] = "fresh"

\* time.Since(deleteTime) > 30*24*time.Hour
PastRetention(f) == deletedFiles[f] = "expired"

\* time.Since(last) > 15*time.Second
PastLiveness(addr) == activeNodes[addr] = "late"

\* ------------------------------------------------------------- worker records
\* /upload handlers of one worker that may run at once
PutIds == {1, 2}

\* the writes io.Copy makes to store one payload
ChunkCount == 2

\* /delete requests the worker receives
MaxDeletes == 2

\* the bytes of payload d, as the chunks io.Copy writes
Chunks(d) == [i \in 1..ChunkCount |-> d]

\* bytes of a file below a write at a higher offset that nothing wrote
Hole == "00"

\* what reading a path that is no entry of the directory gives
Absent == <<"absent">>

\* filepath.Join(dataDir, name), name + ".tmp", name + ".checksum"
DataPath(name) == <<name, "">>

TmpPath(name) == <<name, ".tmp">>

ChecksumPath(name) == <<name, ".checksum">>

\* fmt.Sprintf("%08x", hash.Sum32()) of the bytes fed to the hash
Crc(bytes) == <<"crc32", bytes>>

\* the bytes under a path of directory d with files i
ReadFile(d, i, path) == IF path \in DOMAIN d THEN i[d[path]] ELSE Absent

\* the blob and its sidecar as the directory holds them
Snapshot(d, i, name) ==
    [data |-> ReadFile(d, i, DataPath(name)), sum |-> ReadFile(d, i, ChecksumPath(name))]

NoSnapshot == [data |-> Absent, sum |-> Absent]

WorkerReply(status, body) == [status |-> status, body |-> body]

NoWorkerReply == WorkerReply(0, <<>>)

\* History kept in a handler for stating the claims: faulty, an os call of
\* the handler failed for a reason outside the program; alone, no other
\* handler ran while this one ran; quiet, no handler began after this one
\* replied; prev, the blob and sidecar when the handler began.
IdlePut == [pc |-> "idle", name |-> "", data |-> NoPayload, fd |-> 0, off |-> 0,
            hashed |-> <<>>, reply |-> NoWorkerReply, faulty |-> FALSE,
            alone |-> TRUE, quiet |-> TRUE, prev |-> NoSnapshot]

NoRun == [reply |-> NoWorkerReply, after |-> NoSnapshot]

\* History kept in the delete handler: runs, the requests handled; calm, no
\* /upload handler ran since the first delete began; last, the reply and
\* the directory of the run before.
IdleRm == [pc |-> "idle", name |-> "", runs |-> 0, reply |-> NoWorkerReply,
           faulty |-> FALSE, calm |-> TRUE, last |-> NoRun]

\* the worker model at rest: an empty directory, no handler running
WorkerIdle ==
    /\ dir = EmptyMap
    /\ inodes = <<>>
    /\ puts = [h \in PutIds |-> IdlePut]
    /\ rm = IdleRm

\* ------------------------------------------------------------- start
MasterInit ==
    /\ crc \in HashTables
    /\ mu = "free"
    /\ activeNodes = EmptyMap
    /\ fileIndex = EmptyMap
    /\ checksums = EmptyMap
    /\ deletedFiles = EmptyMap
    /\ ring = NewHashRing
    /\ disk \in {[w \in Workers |-> IF w = "w2" THEN d ELSE EmptyMap] : d \in StartDisks}
    /\ heartbeat = [w \in Workers |-> NoReport]
    /\ tombDeletes = {}
    /\ uploads = [u \in UploadIds |-> IdleUpload]
    /\ del = IdleDelete
    /\ reply = NoReply
    /\ hist = [n \in Names |-> NoHistory]
    /\ arrived = 0
    /\ copies = {}
    /\ scan = NoScan

Init == MasterInit /\ WorkerIdle

\* ------------------------------------------------------------- worker
\* the heartbeat loop: files := getLocalFiles(); http.Post(/register)
WorkerHeartbeat(w) ==
    /\ ~heartbeat[w].sent
    /\ arrived < MaxRequests
    /\ arrived' = arrived + 1
    /\ heartbeat' = [heartbeat EXCEPT ![w] = [sent |-> TRUE, files |-> DOMAIN disk[w]]]
    /\ Silent
    /\ UNCHANGED <<workerVars, scan, copies, crc, mu, masterVars, disk, tombDeletes, uploads, del, hist>>

\* ------------------------------------------------------------- register
\* a register that leaves the block report out of the index
RegisterIndexNone(addr, files) == fileIndex

\* the block-report loop of handleRegister over the reported names
RegisterIndex(addr, files) ==
    LET skip == {f \in files : f \in DOMAIN deletedFiles /\ WithinResurrectionWindow(f)}
        add == files \ skip
    IN [x \in (DOMAIN fileIndex) \cup add |->
          IF x \in add
          THEN (IF x \in DOMAIN fileIndex THEN fileIndex[x] ELSE {}) \cup {addr}
          ELSE fileIndex[x]]

RegisterTombstones(files) ==
    [x \in (DOMAIN deletedFiles) \ {f \in files : ~WithinResurrectionWindow(f)} |->
        deletedFiles[x]]

RegisterDeletes(addr, files) ==
    {<<addr, f>> : f \in {g \in files : g \in DOMAIN deletedFiles /\ WithinResurrectionWindow(g)}}

\* a register that adds the address to the ring at every heartbeat
RegisterRingAlways(addr) == AddNode(ring, addr)

\* if _, ok := state.activeNodes[addr]; !ok { state.ring.AddNode(addr) }
RegisterRing(addr) == IF addr \in DOMAIN activeNodes THEN ring ELSE AddNode(ring, addr)

handleRegister(addr) ==
    /\ heartbeat[addr].sent
    /\ mu = "free"
    /\ LET files == heartbeat[addr].files
       IN /\ ring' = RegisterRing(addr)
          /\ activeNodes' = Put(activeNodes, addr, "live")
          /\ fileIndex' = RegisterIndex(addr, files)
          /\ deletedFiles' = RegisterTombstones(files \cap DOMAIN deletedFiles)
          /\ tombDeletes' = tombDeletes \cup RegisterDeletes(addr, files)
    /\ heartbeat' = [heartbeat EXCEPT ![addr] = NoReport]
    /\ hist' = Revived(Reported(hist, addr, heartbeat[addr].files),
                       (heartbeat[addr].files \cap DOMAIN deletedFiles)
                           \ DOMAIN deletedFiles')
    /\ Silent
    /\ UNCHANGED <<workerVars, scan, copies, crc, mu, checksums, disk, uploads, del, arrived>>

\* the goroutine handleRegister starts: sleep 1 s, GET addr/delete?name=f
TombstoneDelete(addr, f) ==
    /\ <<addr, f>> \in tombDeletes
    /\ tombDeletes' = tombDeletes \ {<<addr, f>>}
    /\ \/ /\ disk' = [disk EXCEPT ![addr] = Del(@, f)]
          /\ uploads' = Disturb(uploads, f)
       \/ UNCHANGED <<disk, uploads>>
    /\ Silent
    /\ UNCHANGED <<workerVars, scan, copies, crc, mu, masterVars, heartbeat, del, hist, arrived>>

\* ------------------------------------------------------------- upload
\* handleUpload up to the fan-out: the secret and the extension are accepted,
\* targets := state.ring.GetNodes(name, 2), read without taking state.mu.
\* With no target the handler has nothing to wait for and UploadFinish
\* replies 500 at once.
UploadBegin(u, name, data) ==
    /\ uploads[u].pc = "idle"
    /\ arrived < MaxRequests
    /\ arrived' = arrived + 1
    /\ LET targets == GetNodes(ring, crc.key[name], ReplicaCount)
       IN uploads' = [uploads EXCEPT ![u] =
             [pc |-> "fanout", name |-> name, data |-> data, targets |-> targets,
              waiting |-> Elems(targets), acked |-> {}, success |-> {},
              clean |-> ~(del.pc = "fanout" /\ del.name = name)]]
    /\ hist' = Touched([hist EXCEPT ![name].lastUpload = NoPayload], name)
    /\ Silent
    /\ UNCHANGED <<workerVars, scan, copies, crc, mu, masterVars, disk, heartbeat, tombDeletes, del>>

\* the copy on worker t is overwritten by handler u
Overwritten(name, t) ==
    [hist EXCEPT ![name].protected = @ \ {t}]

OthersDisturbed(u, mine) ==
    [Disturb(uploads, uploads[u].name) EXCEPT ![u] = mine]

\* the worker's /upload handler stores the payload and answers 200 OK:<hex>
UploadStored(u, t) ==
    /\ uploads[u].pc = "fanout"
    /\ t \in uploads[u].waiting
    /\ disk' = [disk EXCEPT ![t] = Put(@, uploads[u].name, uploads[u].data)]
    /\ uploads' = OthersDisturbed(u, [uploads[u] EXCEPT !.waiting = @ \ {t},
                                         !.acked = @ \cup {t}])
    /\ hist' = Overwritten(uploads[u].name, t)
    /\ Silent
    /\ UNCHANGED <<workerVars, scan, copies, crc, mu, masterVars, heartbeat, tombDeletes, del, arrived>>

\* the POST fails (err != nil) or the worker answers 500; the worker may
\* have renamed the temp file into place before failing
UploadFailed(u, t) ==
    /\ uploads[u].pc = "fanout"
    /\ t \in uploads[u].waiting
    /\ \/ /\ disk' = [disk EXCEPT ![t] = Put(@, uploads[u].name, uploads[u].data)]
          /\ uploads' = OthersDisturbed(u, [uploads[u] EXCEPT !.waiting = @ \ {t}])
          /\ hist' = Overwritten(uploads[u].name, t)
       \/ /\ uploads' = [uploads EXCEPT ![u].waiting = @ \ {t}]
          /\ UNCHANGED <<disk, hist>>
    /\ Silent
    /\ UNCHANGED <<workerVars, scan, copies, crc, mu, masterVars, heartbeat, tombDeletes, del, arrived>>

\* the fan-out goroutine reads the 200: state.mu.Lock(); checksums[name] =
\* checksum; state.mu.Unlock(); successNodes = append(successNodes, n)
UploadAck(u, t) ==
    /\ uploads[u].pc = "fanout"
    /\ t \in uploads[u].acked
    /\ mu = "free"
    /\ checksums' = Put(checksums, uploads[u].name, Checksum(uploads[u].data))
    /\ uploads' = [uploads EXCEPT ![u].acked = @ \ {t}, ![u].success = @ \cup {t}]
    /\ Silent
    /\ UNCHANGED <<workerVars, scan, copies, crc, mu, activeNodes, fileIndex, deletedFiles, ring, disk,
                   heartbeat, tombDeletes, del, hist, arrived>>

\* the targets whose worker answered 200
Answered200(u) == uploads[u].acked \cup uploads[u].success

\* an upload that succeeds only when every target stored the blob
UploadSucceededAll(u) ==
    uploads[u].success # {} /\ uploads[u].success = Elems(uploads[u].targets)

\* len(successNodes) > 0
UploadSucceeded(u) == uploads[u].success # {}

\* for _, n := range successNodes { state.fileIndex[name][n] = true }
UploadIndex(name, successNodes) ==
    Put(fileIndex, name,
        (IF name \in DOMAIN fileIndex THEN fileIndex[name] ELSE {}) \cup successNodes)

\* after wg.Wait(): record the successes under state.mu and reply 200, or
\* reply 500
UploadFinish(u) ==
    /\ uploads[u].pc = "fanout"
    /\ uploads[u].waiting = {}
    /\ uploads[u].acked = {}
    /\ LET name == uploads[u].name
       IN \/ /\ UploadSucceeded(u)
             /\ mu = "free"
             /\ fileIndex' = UploadIndex(name, uploads[u].success)
             /\ reply' = Reply("upload", name, 200, "", 0)
             /\ hist' = [hist EXCEPT ![name].lastUpload = uploads[u].data,
                                     ![name].uploadedSince = TRUE,
                                     ![name].protected =
                                         IF uploads[u].clean
                                         THEN @ \cup Answered200(u) ELSE @]
          \/ /\ ~UploadSucceeded(u)
             /\ reply' = Reply("upload", name, 500, "", 0)
             /\ UNCHANGED <<fileIndex, hist>>
    /\ uploads' = [uploads EXCEPT ![u] = IdleUpload]
    /\ UNCHANGED <<workerVars, scan, copies, crc, mu, activeNodes, checksums, deletedFiles, ring, disk,
                   heartbeat, tombDeletes, del, arrived>>

\* ------------------------------------------------------------- delete
\* handleDelete with the right secret: state.mu.Lock(); 404 when the name is
\* no key of fileIndex; else the fan-out starts, the lock still held
DeleteBegin(name) ==
    /\ del.pc = "idle"
    /\ arrived < MaxRequests
    /\ arrived' = arrived + 1
    /\ mu = "free"
    /\ \/ /\ name \notin DOMAIN fileIndex
          /\ reply' = Reply("delete", name, 404, "", 0)
          /\ UNCHANGED <<mu, del, uploads>>
       \/ /\ name \in DOMAIN fileIndex
          /\ mu' = "delete"
          /\ del' = [pc |-> "fanout", name |-> name, waiting |-> fileIndex[name],
                     success |-> {}]
          /\ uploads' = Disturb(uploads, name)
          /\ Silent
    /\ hist' = Touched([hist EXCEPT ![name].lastUpload = NoPayload,
                                    ![name].protected = {}], name)
    /\ UNCHANGED <<workerVars, scan, copies, crc, masterVars, disk, heartbeat, tombDeletes>>

\* the worker's /delete handler removes the file and answers 200 OK (also
\* when the file is absent)
DeleteAcked(n) ==
    /\ del.pc = "fanout"
    /\ n \in del.waiting
    /\ disk' = [disk EXCEPT ![n] = Del(@, del.name)]
    /\ del' = [del EXCEPT !.waiting = @ \ {n}, !.success = @ \cup {n}]
    /\ uploads' = Disturb(uploads, del.name)
    /\ Silent
    /\ UNCHANGED <<workerVars, scan, copies, crc, mu, masterVars, heartbeat, tombDeletes, hist, arrived>>

\* the GET fails, or the worker answers 500 (os.Remove failed); the worker
\* may have removed the file before the answer was lost
DeleteFailed(n) ==
    /\ del.pc = "fanout"
    /\ n \in del.waiting
    /\ del' = [del EXCEPT !.waiting = @ \ {n}]
    /\ \/ /\ disk' = [disk EXCEPT ![n] = Del(@, del.name)]
          /\ uploads' = Disturb(uploads, del.name)
       \/ UNCHANGED <<disk, uploads>>
    /\ Silent
    /\ UNCHANGED <<workerVars, scan, copies, crc, mu, masterVars, heartbeat, tombDeletes, hist, arrived>>

\* a delete that stamps a tombstone whatever the workers answered
DeleteStampsAlways(successNodes) == TRUE

\* len(successNodes) >= 1
DeleteStamps(successNodes) == successNodes # {}

\* a delete that leaves the acknowledged replicas in the index
DeleteRemainingAll(nodes, successNodes) == nodes

\* for _, n := range successNodes { delete(nodes, n) }
DeleteRemaining(nodes, successNodes) == nodes \ successNodes

\* a delete that never removes the entry of the name
DeleteDropsNever(nodes) == FALSE

\* len(nodes) == 0
DeleteDrops(nodes) == nodes = {}

\* a delete that forgets the checksum of the name it drops
DroppedChecksumKept(name) == checksums

\* delete(state.checksums, name)
DroppedChecksum(name) == Del(checksums, name)

\* after wg.Wait(): the tombstone, the index, state.mu.Unlock(), OK:<count>
DeleteFinish ==
    /\ del.pc = "fanout"
    /\ del.waiting = {}
    /\ LET name == del.name
           left == DeleteRemaining(fileIndex[name], del.success)
       IN /\ deletedFiles' = IF DeleteStamps(del.success)
                             THEN Put(deletedFiles, name, "fresh") ELSE deletedFiles
          /\ IF DeleteDrops(left)
             THEN /\ checksums' = DroppedChecksum(name)
                  /\ fileIndex' = Del(fileIndex, name)
             ELSE /\ fileIndex' = Put(fileIndex, name, left)
                  /\ UNCHANGED checksums
          /\ reply' = Reply("delete", name, 200, "OK", Cardinality(del.success))
          /\ hist' = IF DeleteStamps(del.success)
                     THEN [hist EXCEPT ![name].uploadedSince = FALSE,
                                       ![name].unacked = fileIndex[name] \ del.success]
                     ELSE hist
    /\ mu' = "free"
    /\ del' = IdleDelete
    /\ UNCHANGED <<workerVars, scan, copies, crc, activeNodes, ring, disk, heartbeat, tombDeletes, uploads, arrived>>

\* ------------------------------------------------------------- download
\* nodes := state.fileIndex[name], read under RLock
Candidates(name) == IF name \in DOMAIN fileIndex THEN fileIndex[name] ELSE {}

\* candidate n answers the worker /download with a status < 400: the request
\* reaches the worker (n is in up), the file is there and can be opened
Answers(n, name, up) == n \in up /\ name \in DOMAIN disk[n]

\* a read path that gives up when its first candidate fails
FirstServingNoFailover(order, name, up) ==
    IF order # <<>> /\ Answers(order[1], name, up) THEN 1 ELSE 0

\* for node := range nodes: a candidate that fails is skipped (continue), the
\* first that answers is served; 0 when the loop ends without one
FirstServing(order, name, up) ==
    LET hits == {i \in 1..Len(order) : Answers(order[i], name, up)}
    IN IF hits = {} THEN 0 ELSE CHOOSE i \in hits : \A j \in hits : i <= j

\* handleDownload and handlePlay: the replica set is read under RLock, the
\* candidates are tried in the order of the map iteration and the first
\* that answers is streamed; 404 Unavailable when none is left.  The count
\* of the reply records how many candidates answer during this request.
handleDownload(name) ==
    /\ mu = "free"
    /\ \E up \in SUBSET Workers, order \in Orderings(Candidates(name)) :
          LET i == FirstServing(order, name, up)
              answering == {n \in Candidates(name) : Answers(n, name, up)}
          IN reply' = IF i = 0
                      THEN Reply("download", name, 404, "Unavailable", Cardinality(answering))
                      ELSE Reply("download", name, 200, disk[order[i]][name],
                                 Cardinality(answering))
    /\ UNCHANGED <<workerVars, scan, copies, crc, mu, masterVars, disk, heartbeat, tombDeletes, uploads, del, hist, arrived>>

\* ------------------------------------------------------------- background loops
\* delete(ns, addr) for every replica set
Scrub(index, gone) == [x \in DOMAIN index |-> index[x] \ gone]

\* one pass of healthChecker that finds a worker past the liveness window
healthChecker ==
    /\ mu = "free"
    /\ LET gone == {a \in DOMAIN activeNodes : PastLiveness(a)}
           left == (DOMAIN activeNodes) \ gone
       IN /\ gone # {}
          /\ activeNodes' = [a \in left |-> activeNodes[a]]
          /\ fileIndex' = Scrub(fileIndex, gone)
          /\ \E order \in Orderings(left) : ring' = BuildRing(order)
    /\ hist' = [f \in Names |-> Touched(hist, f)[f]]
    /\ Silent
    /\ UNCHANGED <<workerVars, scan, copies, crc, mu, checksums, deletedFiles, disk, heartbeat, tombDeletes,
                   uploads, del, arrived>>

\* one pass of tombstoneCleaner: state.mu.Lock() at the top of the loop body,
\* the Unlock placed after the endless loop
tombstoneCleaner ==
    /\ mu = "free"
    /\ mu' = "cleaner"
    /\ deletedFiles' = [x \in {f \in DOMAIN deletedFiles : ~PastRetention(f)} |->
                           deletedFiles[x]]
    /\ Silent
    /\ UNCHANGED <<workerVars, scan, copies, crc, activeNodes, fileIndex, checksums, ring, disk, heartbeat,
                   tombDeletes, uploads, del, hist, arrived>>

\* ------------------------------------------------------------- time
\* more than 15 s pass since the last heartbeat of addr
HeartbeatLate(addr) ==
    /\ addr \in DOMAIN activeNodes
    /\ activeNodes[addr] = "live"
    /\ activeNodes' = [activeNodes EXCEPT ![addr] = "late"]
    /\ Silent
    /\ UNCHANGED <<workerVars, scan, copies, crc, mu, fileIndex, checksums, deletedFiles, ring, disk, heartbeat,
                   tombDeletes, uploads, del, hist, arrived>>

\* the tombstone of f reaches 24 h, then passes 30 days
TombstoneAges(f) ==
    /\ f \in DOMAIN deletedFiles
    /\ deletedFiles[f] # "expired"
    /\ deletedFiles' = [deletedFiles EXCEPT ![f] = IF @ = "fresh" THEN "old" ELSE "expired"]
    /\ Silent
    /\ UNCHANGED <<workerVars, scan, copies, crc, mu, activeNodes, fileIndex, checksums, ring, disk, heartbeat,
                   tombDeletes, uploads, del, hist, arrived>>

\* ------------------------------------------------------------- replication fixer
\* a fixer that copies tombstoned names as well
FixerSkipsNone(name) == FALSE

\* if _, deleted := state.deletedFiles[name]; deleted { continue }
FixerSkips(name) == name \in DOMAIN deletedFiles

\* len(nodes) < 2 && len(state.activeNodes) >= 2
FixerWants(nodes) == Cardinality(nodes) < ReplicaCount /\ Cardinality(DOMAIN activeNodes) >= 2

\* the copies one pass spawns: for every name it does not skip, from the
\* first holder the range over nodes gives, to every target the ring names
\* that holds no replica
FixerCopies ==
    {c \in Names \X Workers \X Workers :
        /\ c[1] \in DOMAIN fileIndex
        /\ ~FixerSkips(c[1])
        /\ FixerWants(fileIndex[c[1]])
        /\ c[2] \in fileIndex[c[1]]
        /\ c[3] \in Elems(GetNodes(ring, crc.key[c[1]], ReplicaCount))
        /\ c[3] \notin fileIndex[c[1]]}

\* one pass of replicationFixer, under state.mu from Lock to Unlock
replicationFixer ==
    /\ mu = "free"
    /\ copies' = copies \cup FixerCopies
    /\ Silent
    /\ UNCHANGED <<workerVars, scan, crc, mu, masterVars, disk, heartbeat, tombDeletes, uploads,
                   del, hist, arrived>>

\* the body of the 404 a worker's /download gives for a missing file
NotFoundPage == "404 page not found"

\* a copy that adds its target to the index when it is done
FixerIndexAdds(name, target) ==
    Put(fileIndex, name, Candidates(name) \cup {target})

\* the copy goroutine writes nothing of state
FixerIndex(name, target) == fileIndex

\* a copy goroutine: GET source/download, POST the body to target/upload.
\* The GET fails and the goroutine returns, or the body of whatever reply
\* the source gave is sent; the POST stores it or fails.
FixerCopy(name, source, target) ==
    /\ <<name, source, target>> \in copies
    /\ copies' = copies \ {<<name, source, target>>}
    /\ \/ /\ disk' = [disk EXCEPT ![target] =
                          Put(@, name, IF name \in DOMAIN disk[source]
                                       THEN disk[source][name] ELSE NotFoundPage)]
          /\ uploads' = Disturb(uploads, name)
          /\ hist' = Overwritten(name, target)
          /\ fileIndex' = FixerIndex(name, target)
       \/ UNCHANGED <<disk, uploads, hist, fileIndex>>
    /\ Silent
    /\ UNCHANGED <<workerVars, scan, crc, mu, activeNodes, checksums, deletedFiles, ring,
                   heartbeat, tombDeletes, del, arrived>>

\* ------------------------------------------------------------- refused requests
\* const AdminSecret
AdminSecret == "admin888"

\* the secret form values a client may send
Secrets == {AdminSecret, "guess"}

\* r.FormFile("movie") fails: the request carries no file
NoFile == ""

\* the file names a client may send: the video names and a text file
UploadNames == Names \cup {"notes.txt"}

\* strings.ToLower(filepath.Ext(filename))
Ext(filename) == IF filename \in Names THEN ".mp4" ELSE ".txt"

allowedExtensions == {".mp4", ".mkv", ".avi", ".mov", ".wmv", ".flv", ".webm", ".m4v"}

isAllowedExtension(filename) == Ext(filename) \in allowedExtensions

\* the checks at the head of handleUpload, in the code's order: 401 for the
\* secret, 400 for the missing file, 400 for the extension; 200 stands for
\* a request that passes them
UploadStatus(secret, file) ==
    IF secret # AdminSecret THEN 401
    ELSE IF file = NoFile THEN 400
    ELSE IF ~isAllowedExtension(file) THEN 400
    ELSE 200

\* handleUpload refuses the request: http.Error and return, before the ring
\* is read and before any request to a worker
UploadRefused(secret, file) ==
    /\ UploadStatus(secret, file) # 200
    /\ arrived < MaxRequests
    /\ arrived' = arrived + 1
    /\ reply' = Reply("upload", "", UploadStatus(secret, file), "", 0)
    /\ UNCHANGED <<workerVars, scan, copies, crc, mu, masterVars, disk, heartbeat, tombDeletes, uploads, del,
                   hist>>

\* handleDelete refuses a wrong secret before it takes state.mu
DeleteRefused(secret) ==
    /\ secret # AdminSecret
    /\ arrived < MaxRequests
    /\ arrived' = arrived + 1
    /\ reply' = Reply("delete", "", 401, "", 0)
    /\ UNCHANGED <<workerVars, scan, copies, crc, mu, masterVars, disk, heartbeat, tombDeletes, uploads, del,
                   hist>>

\* a query parameter that is absent
NoParam == ""

\* the name and checksum parameters a client may send to /checksum
ChecksumNames == Names \cup {NoParam}

NoChecksum == <<>>

ChecksumParams == {Checksum(d) : d \in Payloads} \cup {NoChecksum}

\* name == "" || checksum == ""
ChecksumRefused(name, checksum) == name = NoParam \/ checksum = NoChecksum

\* a handler that stores the checksum before it looks at the parameters
ChecksumStoredAlways(name, checksum) == Put(checksums, name, checksum)

\* state.checksums[name] = checksum, reached only past the return of the
\* refusal
ChecksumStored(name, checksum) ==
    IF ChecksumRefused(name, checksum) THEN checksums
    ELSE Put(checksums, name, checksum)

\* handleChecksum: 400 on a missing parameter; else the checksum is stored
\* under state.mu and the reply is OK
handleChecksum(name, checksum) ==
    /\ arrived < MaxRequests
    /\ arrived' = arrived + 1
    /\ ChecksumRefused(name, checksum) \/ mu = "free"
    /\ checksums' = ChecksumStored(name, checksum)
    /\ reply' = IF ChecksumRefused(name, checksum)
                THEN Reply("checksum", "", 400, "", 0)
                ELSE Reply("checksum", name, 200, "OK", 0)
    /\ UNCHANGED <<workerVars, scan, copies, crc, mu, activeNodes, fileIndex, deletedFiles, ring, disk,
                   heartbeat, tombDeletes, uploads, del, hist>>

\* ------------------------------------------------------------- worker store
\* everything but the worker's directory and handlers
systemVars == <<crc, mu, activeNodes, fileIndex, checksums, deletedFiles, ring, disk,
                heartbeat, tombDeletes, uploads, del, reply, hist, arrived, copies, scan>>

\* the handler is between its first os call and its reply
PutBusy(p) == p.pc \notin {"idle", "done"}

\* another handler begins: the history of handler p
Overlapped(p) ==
    [p EXCEPT !.alone = IF PutBusy(p) THEN FALSE ELSE @,
              !.quiet = IF p.pc = "done" THEN FALSE ELSE @]

\* os.Create(path): the entry of the file, new when the path had none
CreatedEntry(d, i, path) == IF path \in DOMAIN d THEN d[path] ELSE Len(i) + 1

\* os.Create(path) and the bytes written after it: a file that exists is
\* truncated and keeps its identity for every descriptor open on it
CreatedFiles(d, i, path, bytes) ==
    IF path \in DOMAIN d THEN [i EXCEPT ![d[path]] = bytes] ELSE Append(i, bytes)

\* a write of one chunk at offset off of a descriptor; a file shorter than
\* the offset is filled with holes
WriteAt(bytes, off, chunk) ==
    LET padded == IF Len(bytes) < off
                  THEN bytes \o [k \in 1..(off - Len(bytes)) |-> Hole]
                  ELSE bytes
    IN IF off < Len(padded) THEN [padded EXCEPT ![off + 1] = chunk]
       ELSE Append(padded, chunk)

\* http.Error(w, "...", 500)
Failed500 == WorkerReply(500, <<>>)

\* /upload, first call: os.Create(name + ".tmp"); 500 when it fails
PutCreate(h, name, data) ==
    /\ puts[h].pc = "idle"
    /\ LET path == TmpPath(name)
           begun == [IdlePut EXCEPT
                        !.name = name, !.data = data,
                        !.alone = rm.pc = "idle" /\
                                  \A g \in PutIds \ {h} : ~PutBusy(puts[g]),
                        !.prev = Snapshot(dir, inodes, name)]
           others(mine) == [g \in PutIds |-> IF g = h THEN mine ELSE Overlapped(puts[g])]
       IN \/ /\ dir' = Put(dir, path, CreatedEntry(dir, inodes, path))
             /\ inodes' = CreatedFiles(dir, inodes, path, <<>>)
             /\ puts' = others([begun EXCEPT !.pc = "copy",
                                             !.fd = CreatedEntry(dir, inodes, path)])
          \/ /\ puts' = others([begun EXCEPT !.pc = "done", !.reply = Failed500,
                                             !.faulty = TRUE])
             /\ UNCHANGED <<dir, inodes>>
    /\ rm' = [rm EXCEPT !.calm = FALSE]
    /\ UNCHANGED systemVars

\* io.Copy(writer, file): one chunk goes to the temp file and to the hash;
\* on an error the handler removes name + ".tmp" and replies 500
PutWrite(h) ==
    /\ puts[h].pc = "copy"
    /\ LET p == puts[h]
           chunk == Chunks(p.data)[p.off + 1]
       IN \/ /\ inodes' = [inodes EXCEPT ![p.fd] = WriteAt(@, p.off, chunk)]
             /\ puts' = [puts EXCEPT ![h].off = p.off + 1,
                                     ![h].hashed = Append(p.hashed, chunk),
                                     ![h].pc = IF p.off + 1 = ChunkCount THEN "rename"
                                               ELSE "copy"]
             /\ UNCHANGED dir
          \/ /\ dir' = Del(dir, TmpPath(p.name))
             /\ puts' = [puts EXCEPT ![h].pc = "done", ![h].reply = Failed500,
                                     ![h].faulty = TRUE]
             /\ UNCHANGED inodes
    /\ UNCHANGED <<rm, systemVars>>

\* os.Rename(name + ".tmp", name); on an error, which a missing temp file
\* is, the handler removes name + ".tmp" and replies 500
PutRename(h) ==
    /\ puts[h].pc = "rename"
    /\ LET tmp == TmpPath(puts[h].name)
       IN \/ /\ tmp \in DOMAIN dir
             /\ dir' = Del(Put(dir, DataPath(puts[h].name), dir[tmp]), tmp)
             /\ puts' = [puts EXCEPT ![h].pc = "sum"]
          \/ /\ dir' = Del(dir, tmp)
             /\ puts' = [puts EXCEPT ![h].pc = "done", ![h].reply = Failed500,
                                     ![h].faulty = tmp \in DOMAIN dir]
    /\ UNCHANGED <<inodes, rm, systemVars>>

\* os.Create(name + ".checksum"), WriteString(checksumStr), reply
\* "OK:" + checksumStr; 500 when the create fails
PutSum(h) ==
    /\ puts[h].pc = "sum"
    /\ LET path == ChecksumPath(puts[h].name)
           checksumStr == Crc(puts[h].hashed)
       IN \/ /\ dir' = Put(dir, path, CreatedEntry(dir, inodes, path))
             /\ inodes' = CreatedFiles(dir, inodes, path, checksumStr)
             /\ puts' = [puts EXCEPT ![h].pc = "done",
                                     ![h].reply = WorkerReply(200, <<"OK", checksumStr>>)]
          \/ /\ puts' = [puts EXCEPT ![h].pc = "done", ![h].reply = Failed500,
                                     ![h].faulty = TRUE]
             /\ UNCHANGED <<dir, inodes>>
    /\ UNCHANGED <<rm, systemVars>>

\* a /delete handler that takes every file for present
RmFindsAlways(path) == TRUE

\* _, err := os.Stat(path); err == nil
RmFinds(path) == path \in DOMAIN dir

\* /delete, the blob: os.Stat, then os.Remove; 500 when the remove fails
RmData(name) ==
    /\ rm.pc = "idle"
    /\ rm.runs < MaxDeletes
    /\ LET path == DataPath(name)
           begun == [rm EXCEPT
                        !.name = name, !.runs = @ + 1, !.reply = NoWorkerReply,
                        !.calm = IF rm.runs = 0 THEN \A g \in PutIds : ~PutBusy(puts[g])
                                 ELSE @]
       IN IF RmFinds(path)
          THEN \/ /\ path \in DOMAIN dir
                  /\ dir' = Del(dir, path)
                  /\ rm' = [begun EXCEPT !.pc = "sum"]
               \/ /\ rm' = [begun EXCEPT
                                !.reply = Failed500,
                                !.faulty = @ \/ path \in DOMAIN dir,
                                !.last = [reply |-> Failed500,
                                          after |-> Snapshot(dir, inodes, name)]]
                  /\ UNCHANGED dir
          ELSE /\ rm' = [begun EXCEPT !.pc = "sum"]
               /\ UNCHANGED dir
    /\ puts' = [g \in PutIds |-> Overlapped(puts[g])]
    /\ UNCHANGED <<inodes, systemVars>>

\* /delete, the sidecar: os.Stat, then os.Remove with its error dropped;
\* the reply is "OK"
RmSum ==
    /\ rm.pc = "sum"
    /\ LET path == ChecksumPath(rm.name)
           ok == WorkerReply(200, <<"OK">>)
       IN \/ /\ dir' = IF RmFinds(path) THEN Del(dir, path) ELSE dir
             /\ rm' = [rm EXCEPT
                          !.pc = "idle", !.reply = ok,
                          !.last = [reply |-> ok,
                                    after |-> Snapshot(dir', inodes, rm.name)]]
          \/ /\ RmFinds(path) /\ path \in DOMAIN dir
             /\ rm' = [rm EXCEPT
                          !.pc = "idle", !.reply = ok, !.faulty = TRUE,
                          !.last = [reply |-> ok,
                                    after |-> Snapshot(dir, inodes, rm.name)]]
             /\ UNCHANGED dir
    /\ UNCHANGED <<inodes, puts, systemVars>>

\* the reply of /verify?name=&checksum=expected on directory d with files i
VerifyReply(d, i, name, expected) ==
    LET actual == Crc(ReadFile(d, i, DataPath(name)))
        stored == ReadFile(d, i, ChecksumPath(name))
    IN IF DataPath(name) \notin DOMAIN d THEN WorkerReply(404, <<>>)
       ELSE IF expected # NoChecksum
            THEN IF actual # expected
                 THEN WorkerReply(400, <<"CHECKSUM_MISMATCH", actual>>)
                 ELSE WorkerReply(200, <<"OK", actual>>)
       ELSE IF stored = Absent THEN WorkerReply(500, <<"NO_CHECKSUM_FILE">>)
       ELSE IF stored = actual THEN WorkerReply(200, <<"OK", actual>>)
       ELSE WorkerReply(400, <<"CHECKSUM_MISMATCH", actual>>)

\* getLocalFiles: the entries that end neither in .checksum nor in .tmp
getLocalFiles(d) == {p[1] : p \in {q \in DOMAIN d : q[2] = ""}}

\* the directory when the worker's handlers begin: empty, or a blob of
\* StartDisks and its sidecar stored before
WorkerStarts ==
    {<<EmptyMap, <<>>>>} \cup
    {<<[q \in {DataPath(n), ChecksumPath(n)} |-> IF q = DataPath(n) THEN 1 ELSE 2],
       <<Chunks(s[n]), Crc(Chunks(s[n]))>>>> : n \in Names, s \in StartDisks \ {EmptyMap}}

\* one worker seen alone: the master has just started and stays at rest
WorkerInit ==
    /\ MasterInit
    /\ crc = CHOOSE t \in HashTables : TRUE
    /\ disk = [w \in Workers |-> EmptyMap]
    /\ \E start \in WorkerStarts : dir = start[1] /\ inodes = start[2]
    /\ puts = [h \in PutIds |-> IdlePut]
    /\ rm = IdleRm

WorkerNext ==
    \/ \E h \in PutIds, n \in Names, d \in Payloads : PutCreate(h, n, d)
    \/ \E h \in PutIds : PutWrite(h)
    \/ \E h \in PutIds : PutRename(h)
    \/ \E h \in PutIds : PutSum(h)
    \/ \E n \in Names : RmData(n)
    \/ RmSum

WorkerSpec == WorkerInit /\ [][WorkerNext]_vars

\* ------------------------------------------------------------- verify
\* the master reads "OK:" from worker n: the worker is reached, holds the
\* name, and the CRC32 of its bytes is the expected one or, when the master
\* has none to send, the one of the worker's sidecar (sound)
VerifyValid(n, name, expected, up, sound) ==
    /\ n \in up
    /\ name \in DOMAIN disk[n]
    /\ IF expected # NoChecksum THEN Checksum(disk[n][name]) = expected ELSE n \in sound

\* a verify that takes the replicas found invalid out of the index
VerifiedIndexEvicts(name, invalid) ==
    IF name \in DOMAIN fileIndex THEN Put(fileIndex, name, fileIndex[name] \ invalid)
    ELSE fileIndex

\* handleVerify writes nothing of state
VerifiedIndex(name, invalid) == fileIndex

\* handleVerify: the replica set and the checksum are read under RLock;
\* 404 when the set is empty; else every replica is asked and the reply is
\* the JSON array of the results, of which count are valid
handleVerify(name) ==
    /\ mu = "free"
    /\ arrived < MaxRequests
    /\ arrived' = arrived + 1
    /\ \E up \in SUBSET Workers, sound \in SUBSET Workers :
          LET nodes == Candidates(name)
              expected == IF name \in DOMAIN checksums THEN checksums[name] ELSE NoChecksum
              valid == {n \in nodes : VerifyValid(n, name, expected, up, sound)}
          IN /\ reply' = IF nodes = {} THEN Reply("verify", name, 404, "", 0)
                         ELSE Reply("verify", name, 200, "JSON", Cardinality(valid))
             /\ fileIndex' = VerifiedIndex(name, nodes \ valid)
    /\ UNCHANGED <<workerVars, scan, copies, crc, mu, activeNodes, checksums, deletedFiles, ring,
                   disk, heartbeat, tombDeletes, uploads, del, hist>>

\* ------------------------------------------------------------- get-checksum
\* what the workers' /checksum handlers return for a name: the bytes of the
\* sidecar, or nothing (no sidecar: 404, or the worker is not reached)
WorkerSums == [Workers -> ChecksumParams]

\* handleGetChecksum: checksum and replica set are read under RLock; a
\* stored checksum is the reply; else the replicas are asked in map order
\* and the first non-empty 200 body is the reply; else 404.  Nothing is
\* written to state.checksums.
handleGetChecksum(name) ==
    /\ mu = "free"
    /\ arrived < MaxRequests
    /\ arrived' = arrived + 1
    /\ \E sums \in WorkerSums :
          LET nodes == Candidates(name)
              supplying == {n \in nodes : sums[n] # NoChecksum}
          IN IF name \in DOMAIN checksums
             THEN reply' = Reply("get-checksum", name, 200, checksums[name], 0)
             ELSE IF supplying = {}
             THEN reply' = Reply("get-checksum", name, 404, NoChecksum, 0)
             ELSE \E n \in supplying :
                    reply' = Reply("get-checksum", name, 200, sums[n], Cardinality(supplying))
    /\ UNCHANGED <<workerVars, scan, copies, crc, mu, masterVars, disk, heartbeat, tombDeletes,
                   uploads, del, hist>>

\* ------------------------------------------------------------- system
\* const enableReplicationFixer = false: main starts healthChecker and
\* tombstoneCleaner and, the flag being off, no replicationFixer, so no step
\* of the fixer is among the steps of the system
enableReplicationFixer == FALSE

Next ==
    \/ \E w \in Workers : WorkerHeartbeat(w)
    \/ \E w \in Workers : handleRegister(w)
    \/ \E w \in Workers, f \in Names : TombstoneDelete(w, f)
    \/ \E u \in UploadIds, f \in Names, d \in Payloads : UploadBegin(u, f, d)
    \/ \E u \in UploadIds, w \in Workers : UploadStored(u, w)
    \/ \E u \in UploadIds, w \in Workers : UploadFailed(u, w)
    \/ \E u \in UploadIds, w \in Workers : UploadAck(u, w)
    \/ \E u \in UploadIds : UploadFinish(u)
    \/ \E f \in Names : DeleteBegin(f)
    \/ \E w \in Workers : DeleteAcked(w)
    \/ \E w \in Workers : DeleteFailed(w)
    \/ DeleteFinish
    \/ \E f \in Names : handleDownload(f)
    \/ \E f \in Names : handleVerify(f)
    \/ \E f \in Names : handleGetChecksum(f)
    \/ \E s \in Secrets, f \in UploadNames \cup {NoFile} : UploadRefused(s, f)
    \/ \E s \in Secrets : DeleteRefused(s)
    \/ \E f \in ChecksumNames, c \in ChecksumParams : handleChecksum(f, c)
    \/ healthChecker
    \/ tombstoneCleaner
    \/ \E w \in Workers : HeartbeatLate(w)
    \/ \E f \in Names : TombstoneAges(f)

Spec == Init /\ [][Next]_vars

\* handleRegister can run: a block report has arrived and state.mu is free
CanRegister == \E w \in Workers : heartbeat[w].sent /\ mu = "free"

\* a pass of healthChecker can expire a worker
CanExpire == mu = "free" /\ \E a \in DOMAIN activeNodes : PastLiveness(a)

\* The scheduling the Go runtime and the processes give: the background
\* loops started by main keep running, a handler that can take its next step
\* takes it, a worker request is answered or fails, the heartbeat loop posts
\* its next report.  For handleRegister and healthChecker weak fairness is
\* written out, the condition under which the action is enabled in place of
\* ENABLED.
Fairness ==
    /\ WF_vars(tombstoneCleaner)
    /\ WF_vars(DeleteFinish)
    /\ WF_vars(\E w \in Workers : DeleteAcked(w) \/ DeleteFailed(w))
    /\ WF_vars(\E u \in UploadIds, w \in Workers : UploadStored(u, w) \/ UploadFailed(u, w))
    /\ WF_vars(\E u \in UploadIds, w \in Workers : UploadAck(u, w))
    /\ WF_vars(\E u \in UploadIds : UploadFinish(u))
    /\ WF_vars(\E w \in Workers : WorkerHeartbeat(w))
    /\ (<>[]CanRegister) => []<><<\E w \in Workers : handleRegister(w)>>_vars
    /\ (<>[]CanExpire) => []<><<healthChecker>>_vars

FairSpec == Spec /\ Fairness

\* the system with the switch enableReplicationFixer on: main starts
\* replicationFixer beside healthChecker and tombstoneCleaner
FixerNext ==
    \/ Next
    \/ replicationFixer
    \/ \E f \in Names, s \in Workers, t \in Workers : FixerCopy(f, s, t)

FixerSpec == Init /\ [][FixerNext]_vars

\* ------------------------------------------------------------- two uploads
\* two requests in handleUpload at once (net/http runs every request in a
\* goroutine of its own)
Uploaders == {1, 2}

\* a master and two workers with empty data directories
RaceInit ==
    /\ crc = CHOOSE t \in HashTables : TRUE
    /\ mu = "free"
    /\ activeNodes = EmptyMap
    /\ fileIndex = EmptyMap
    /\ checksums = EmptyMap
    /\ deletedFiles = EmptyMap
    /\ ring = NewHashRing
    /\ disk = [w \in Workers |-> EmptyMap]
    /\ heartbeat = [w \in Workers |-> NoReport]
    /\ tombDeletes = {}
    /\ uploads = [u \in Uploaders |-> IdleUpload]
    /\ del = IdleDelete
    /\ reply = NoReply
    /\ hist = [n \in Names |-> NoHistory]
    /\ arrived = 0
    /\ copies = {}
    /\ scan = NoScan
    /\ WorkerIdle

\* heartbeats, registers and the steps of the two upload handlers
RaceNext ==
    \/ \E w \in Workers : WorkerHeartbeat(w)
    \/ \E w \in Workers : handleRegister(w)
    \/ \E u \in Uploaders, f \in Names, d \in Payloads : UploadBegin(u, f, d)
    \/ \E u \in Uploaders, w \in Workers : UploadStored(u, w)
    \/ \E u \in Uploaders, w \in Workers : UploadFailed(u, w)
    \/ \E u \in Uploaders, w \in Workers : UploadAck(u, w)
    \/ \E u \in Uploaders : UploadFinish(u)

RaceSpec == RaceInit /\ [][RaceNext]_vars

\* ------------------------------------------------------------- range over a replica set
\* handleDownload (handlePlay, handleVerify, handleGetChecksum alike) up to
\* RUnlock: nodes := state.fileIndex[name] is the map of the index itself,
\* no copy of it
ScanBegin(name) ==
    /\ scan.pc = "idle"
    /\ mu = "free"
    /\ name \in DOMAIN fileIndex
    /\ arrived < MaxRequests
    /\ arrived' = arrived + 1
    /\ scan' = [pc |-> "range", name |-> name, nodes |-> fileIndex[name]]
    /\ Silent
    /\ UNCHANGED <<workerVars, copies, crc, mu, masterVars, disk, heartbeat, tombDeletes,
                   uploads, del, hist>>

\* the map the handler ranges over is still the one under the key
ScanShares == scan.name \in DOMAIN fileIndex

\* a writer has changed the map since the handler took it
ScanRaced == ScanShares /\ fileIndex[scan.name] # scan.nodes

\* for node := range nodes { ... }, state.mu not held: the loop sees the map
\* as the writers leave it.  When a writer has changed the map during the
\* loop the read is unsynchronized: the runtime may stop the process with
\* "concurrent map iteration and map write", or the loop goes on.
ScanEnd ==
    /\ scan.pc = "range"
    /\ LET name == scan.name
           nodes == IF ScanShares THEN fileIndex[name] ELSE scan.nodes
       IN \/ /\ ScanRaced
             /\ scan' = [scan EXCEPT !.pc = "fatal"]
             /\ Silent
          \/ /\ scan' = NoScan
             /\ \E up \in SUBSET Workers :
                   LET answering == {n \in nodes : Answers(n, name, up)}
                   IN IF answering = {}
                      THEN reply' = Reply("download", name, 404, "Unavailable", 0)
                      ELSE \E n \in answering :
                             reply' = Reply("download", name, 200, disk[n][name],
                                            Cardinality(answering))
    /\ UNCHANGED <<workerVars, copies, crc, mu, masterVars, disk, heartbeat, tombDeletes,
                   uploads, del, hist, arrived>>

\* a step of the master process, which takes none once the runtime has
\* stopped it
Running(step) == scan.pc # "fatal" /\ step

\* the master with one download handler seen step by step
ScanNext ==
    \/ \E w \in Workers : Running(WorkerHeartbeat(w))
    \/ \E w \in Workers : Running(handleRegister(w))
    \/ \E w \in Workers : Running(HeartbeatLate(w))
    \/ Running(healthChecker)
    \/ \E f \in Names : Running(ScanBegin(f))
    \/ Running(ScanEnd)

ScanSpec == Init /\ [][ScanNext]_vars

\* ------------------------------------------------------------- live workers
\* the worker's heartbeat loop has posted its report 5 s after the last one
\* and http.Post has not returned, handleRegister waiting for state.mu;
\* more than 15 s have now passed since the report before it
RegisterOverdue(addr) ==
    /\ heartbeat[addr].sent
    /\ mu # "free"
    /\ HeartbeatLate(addr)

\* the system when no worker ever stops: a heartbeat is late at the master
\* only for the time its /register waits for the lock
LiveNext ==
    \/ \E w \in Workers : WorkerHeartbeat(w)
    \/ \E w \in Workers : handleRegister(w)
    \/ \E w \in Workers : RegisterOverdue(w)
    \/ \E u \in UploadIds, f \in Names, d \in Payloads : UploadBegin(u, f, d)
    \/ \E u \in UploadIds, w \in Workers : UploadStored(u, w)
    \/ \E u \in UploadIds, w \in Workers : UploadFailed(u, w)
    \/ \E u \in UploadIds, w \in Workers : UploadAck(u, w)
    \/ \E u \in UploadIds : UploadFinish(u)
    \/ \E f \in Names : DeleteBegin(f)
    \/ \E w \in Workers : DeleteAcked(w)
    \/ \E w \in Workers : DeleteFailed(w)
    \/ DeleteFinish
    \/ healthChecker
    \/ tombstoneCleaner

LiveSpec == Init /\ [][LiveNext]_vars

\* ------------------------------------------------------------- claims
Counts == 0..3

\* the step is the processing of worker a's block report by handleRegister
Registers(a) == heartbeat[a].sent /\ ~heartbeat'[a].sent

\* the step is the end of upload handler u
UploadEnds(u) == uploads[u].pc = "fanout" /\ uploads'[u].pc = "idle"

\* C1: a /register whose block report holds a name with a tombstone younger
\* than 24 h leaves that name's entry of fileIndex as it was (the worker is
\* not added, no entry is created) and schedules a delete of the name to the
\* reporting worker.
C1_TombstoneSuppression ==
    [][\A a \in Workers, f \in Names :
         (/\ Registers(a)
          /\ f \in heartbeat[a].files
          /\ f \in DOMAIN deletedFiles
          /\ deletedFiles[f] = "fresh")
         => /\ (f \in DOMAIN fileIndex' <=> f \in DOMAIN fileIndex)
            /\ (f \in DOMAIN fileIndex => fileIndex'[f] = fileIndex[f])
            /\ <<a, f>> \in tombDeletes']_vars

\* a worker that still holds a tombstoned name has reported it: the name is
\* not indexed and the delete to the worker is scheduled
C1_Witness ==
    \E a \in Workers, f \in Names :
        /\ <<a, f>> \in tombDeletes
        /\ f \in DOMAIN disk[a]
        /\ f \in DOMAIN deletedFiles
        /\ deletedFiles[f] = "fresh"
        /\ f \notin DOMAIN fileIndex

\* C2: once an upload of payload B under a name has replied 200, a download
\* of the name that replies 200, no upload or delete of the name having begun
\* in between, returns B.
C2_RoundTrip ==
    (/\ reply.op = "download"
     /\ reply.status = 200
     /\ hist[reply.name].lastUpload # NoPayload)
    => reply.body = hist[reply.name].lastUpload

\* C3: the copy an upload that replied 200 wrote on a worker stays on that
\* worker's disk until a delete of the name is issued.
C3_UploadedCopyKept ==
    \A f \in Names : \A w \in hist[f].protected : f \in DOMAIN disk[w]

\* C4: an upload handler ends only after every target has completed; it
\* replies 200 iff some target answered 200 and 500 iff none did (no target,
\* or every target failed); on 200 fileIndex[name] gains exactly the targets
\* that answered 200, on 500 fileIndex is unchanged.
C4_PartialSuccessWrite ==
    [][\A u \in UploadIds :
         UploadEnds(u) =>
           LET name == uploads[u].name
               ok == uploads[u].acked \cup uploads[u].success
               before == IF name \in DOMAIN fileIndex THEN fileIndex[name] ELSE {}
           IN /\ uploads[u].waiting = {}
              /\ reply'.op = "upload"
              /\ reply'.status \in {200, 500}
              /\ reply'.status = 200 <=> ok # {}
              /\ reply'.status = 500 <=>
                    (uploads[u].targets = <<>> \/ ok = {})
              /\ reply'.status = 200 =>
                    /\ DOMAIN fileIndex' = (DOMAIN fileIndex) \cup {name}
                    /\ fileIndex'[name] = before \cup ok
                    /\ \A f \in DOMAIN fileIndex : f # name => fileIndex'[f] = fileIndex[f]
              /\ reply'.status = 500 => fileIndex' = fileIndex]_vars

\* an upload has replied 200 with one replica recorded although the ring
\* names two targets: one of them failed
C4_Witness ==
    /\ reply.op = "upload"
    /\ reply.status = 200
    /\ Cardinality(fileIndex[reply.name]) = 1
    /\ Len(GetNodes(ring, crc.key[reply.name], ReplicaCount)) = 2

\* C5: an upload that replies 200, every target the ring names for the key
\* having answered 200, leaves two distinct addresses, the two targets, in
\* fileIndex[name] when at least two workers are active, and one address
\* when exactly one worker is active.
C5_TwoWayReplication ==
    [][\A u \in UploadIds :
         (/\ UploadEnds(u)
          /\ reply'.status = 200
          /\ uploads[u].targets = GetNodes(ring, crc.key[uploads[u].name], ReplicaCount)
          /\ uploads[u].success = Elems(uploads[u].targets))
         => LET name == uploads[u].name
                targets == uploads[u].targets
                active == Cardinality(DOMAIN activeNodes)
            IN /\ active >= 2 =>
                    /\ Len(targets) = 2
                    /\ targets[1] # targets[2]
                    /\ Elems(targets) \subseteq fileIndex'[name]
               /\ active = 1 =>
                    /\ Len(targets) = 1
                    /\ Elems(targets) \subseteq fileIndex'[name]]_vars

\* C6: every address in a replica set of fileIndex is a key of activeNodes.
C6_IndexedAreActive ==
    \A f \in DOMAIN fileIndex : fileIndex[f] \subseteq DOMAIN activeNodes

\* C7: every key of fileIndex has at least one address in its replica set.
C7_NoEmptyReplicaSet ==
    \A f \in DOMAIN fileIndex : fileIndex[f] # {}

\* C8: no name has both a non-empty replica set and a tombstone younger than
\* 24 h that was stamped after the last upload of the name that replied 200.
C8_TombstoneExcludesIndex ==
    \A f \in Names :
        ~(/\ f \in DOMAIN fileIndex
          /\ fileIndex[f] # {}
          /\ f \in DOMAIN deletedFiles
          /\ deletedFiles[f] = "fresh"
          /\ ~hist[f].uploadedSince)

\* C8, amended: while a name has a tombstone younger than 24 h that was
\* stamped after the last upload of the name that replied 200, its replica
\* set holds only replicas that did not acknowledge the delete that stamped
\* the tombstone.
C8_TombstoneLeavesUnacked ==
    \A f \in Names :
        (/\ f \in DOMAIN fileIndex
         /\ f \in DOMAIN deletedFiles
         /\ deletedFiles[f] = "fresh"
         /\ ~hist[f].uploadedSince)
        => fileIndex[f] \subseteq hist[f].unacked

\* a delete was acknowledged by one replica and not by another: the
\* tombstone is fresh and the replica that did not acknowledge is indexed
C8_Witness ==
    \E f \in Names :
        /\ f \in DOMAIN fileIndex
        /\ fileIndex[f] # {}
        /\ f \in DOMAIN deletedFiles
        /\ deletedFiles[f] = "fresh"
        /\ ~hist[f].uploadedSince
        /\ fileIndex[f] \subseteq hist[f].unacked

\* C9: for every key and count k, GetNodes on the ring of the active workers
\* returns min(k, number of active workers) pairwise distinct active workers.
C9_GetNodesLength ==
    \A h \in HashValues, k \in Counts :
        LET r == GetNodes(ring, h, k)
        IN /\ Len(r) = Min(k, Cardinality(DOMAIN activeNodes))
           /\ \A i, j \in 1..Len(r) : r[i] = r[j] => i = j
           /\ Elems(r) \subseteq DOMAIN activeNodes

\* C10: for the same active workers GetNodes returns the same sequence for
\* the same key, in whatever order the workers were added to the ring.
C10_GetNodesDeterministic ==
    \A order \in Orderings(DOMAIN activeNodes), h \in HashValues, k \in Counts :
        GetNodes(ring, h, k) = GetNodes(BuildRing(order), h, k)

\* the addresses that own a position of the ring
RingOwners == {ring.nodeMap[p] : p \in DOMAIN ring.nodeMap}

\* C11: a worker whose last heartbeat is older than the liveness window is
\* eventually absent from activeNodes, from every replica set of fileIndex
\* and from the ring, which then holds the surviving active workers only,
\* unless a new heartbeat of the worker is processed first.
C11_FailureDetected ==
    \A a \in Workers :
        (a \in DOMAIN activeNodes /\ PastLiveness(a))
        ~> \/ /\ a \notin DOMAIN activeNodes
              /\ \A f \in DOMAIN fileIndex : a \notin fileIndex[f]
              /\ RingOwners \subseteq DOMAIN activeNodes
           \/ (a \in DOMAIN activeNodes /\ ~PastLiveness(a))

\* the step is a download (or play) of a name that replies
Downloads == reply'.op = "download"

\* C12: a download replies 200 whenever at least one address of
\* fileIndex[name] answers its worker /download with a status < 400, however
\* many other candidates fail and in whatever order they are tried; it
\* replies 404 Unavailable only when fileIndex[name] is absent or empty or
\* every candidate fails.
C12_ReadFailover ==
    [][Downloads =>
         /\ reply'.count >= 1 => reply'.status = 200
         /\ reply'.status # 200 =>
               /\ reply'.status = 404
               /\ reply'.body = "Unavailable"
               /\ reply'.count = 0
         /\ Candidates(reply'.name) = {} => reply'.status = 404]_vars

\* a download has been served although one of the two indexed replicas did
\* not answer
C12_Witness ==
    /\ reply.op = "download"
    /\ reply.status = 200
    /\ reply.count = 1
    /\ Cardinality(Candidates(reply.name)) = 2

\* the step is the end of the delete handler
DeleteEnds == del.pc = "fanout" /\ del'.pc = "idle"

\* C13: when a delete of a name with replica set S ends, a tombstone is
\* stamped iff some worker of S acknowledged; the acknowledging addresses,
\* and only they, leave fileIndex[name]; when none is left the entries of
\* the name in fileIndex and checksums are removed; the reply is OK with
\* the number of acknowledging workers.
C13_DeleteOutcome ==
    [][DeleteEnds =>
         LET name == del.name
             S == fileIndex[name]
             acks == del.success
         IN /\ acks \subseteq S
            /\ acks # {} => /\ name \in DOMAIN deletedFiles'
                            /\ deletedFiles'[name] = "fresh"
                            /\ \A f \in DOMAIN deletedFiles : f \in DOMAIN deletedFiles'
            /\ acks = {} => deletedFiles' = deletedFiles
            /\ S \ acks # {} => /\ name \in DOMAIN fileIndex'
                                /\ fileIndex'[name] = S \ acks
                                /\ checksums' = checksums
            /\ S \ acks = {} => /\ name \notin DOMAIN fileIndex'
                                /\ name \notin DOMAIN checksums'
            /\ \A f \in (DOMAIN fileIndex) \ {name} :
                  f \in DOMAIN fileIndex' /\ fileIndex'[f] = fileIndex[f]
            /\ reply' = Reply("delete", name, 200, "OK", Cardinality(acks))]_vars

\* a delete of a name held by two replicas has ended with one
\* acknowledgement: OK:1, the other replica still indexed
C13_Witness ==
    /\ reply.op = "delete"
    /\ reply.status = 200
    /\ reply.count = 1
    /\ reply.name \in DOMAIN fileIndex
    /\ Cardinality(fileIndex[reply.name]) = 1
    /\ reply.name \in DOMAIN deletedFiles

\* C14: a delete in which every replica acknowledged leaves the name out of
\* fileIndex, and a delete of a name that is no key of fileIndex (a second
\* delete, or a name never indexed) replies 404, changes no master state,
\* stamps no tombstone and sends no request to a worker.
C14_DeleteIdempotent ==
    [][/\ (DeleteEnds /\ del.success = fileIndex[del.name])
            => del.name \notin DOMAIN fileIndex'
       /\ \A f \in Names :
            (DeleteBegin(f) /\ f \notin DOMAIN fileIndex)
            => /\ reply' = Reply("delete", f, 404, "", 0)
               /\ UNCHANGED masterVars
               /\ UNCHANGED <<mu, del, tombDeletes, disk>>]_vars

\* the second delete of a name: the name has a tombstone of the first
\* delete and no entry, and the delete has replied 404
C14_Witness ==
    /\ reply.op = "delete"
    /\ reply.status = 404
    /\ reply.name \in DOMAIN deletedFiles
    /\ reply.name \notin DOMAIN fileIndex

\* name f has exactly one replica and no tombstone while at least two
\* workers are active and within the liveness window
SingleReplica(f) ==
    /\ f \in DOMAIN fileIndex
    /\ Cardinality(fileIndex[f]) = 1
    /\ f \notin DOMAIN deletedFiles
    /\ Cardinality(DOMAIN activeNodes) >= 2
    /\ \A a \in DOMAIN activeNodes : ~PastLiveness(a)

\* C15: a name that has exactly one replica and no tombstone, at least two
\* workers being active, eventually has two replicas in fileIndex, unless it
\* first gets a tombstone, loses its replica or a worker stops being active.
C15_SelfHealing ==
    \A f \in Names :
        SingleReplica(f)
        ~> \/ (f \in DOMAIN fileIndex /\ Cardinality(fileIndex[f]) >= 2)
           \/ f \notin DOMAIN fileIndex
           \/ fileIndex[f] = {}
           \/ f \in DOMAIN deletedFiles
           \/ Cardinality(DOMAIN activeNodes) < 2
           \/ \E a \in DOMAIN activeNodes : PastLiveness(a)

\* C16: while the master, started with empty tables, has only processed
\* block reports, activeNodes is the set of workers whose heartbeat has
\* been processed and, for every name, fileIndex[name] is the set of those
\* workers whose block report held the name.
C16_IndexRebuilt ==
    \A f \in Names :
        hist[f].rebuilding
        => /\ DOMAIN activeNodes = hist[f].reported \cup hist[f].absent
           /\ Candidates(f) = hist[f].reported

\* every worker has had a heartbeat processed and one of them holds the name
C16_Witness ==
    \E f \in Names :
        /\ hist[f].rebuilding
        /\ hist[f].reported \cup hist[f].absent = Workers
        /\ hist[f].reported # {}
        /\ \A w \in Workers : ~heartbeat[w].sent

\* the delete handler waits for the answer of a worker while it holds
\* state.mu (the upload handler takes the lock only inside UploadAck and
\* UploadFinish, after the answers have come)
WaitsUnderLock == mu = "delete" /\ del.pc = "fanout" /\ del.waiting # {}

\* C17: no handler waits for a worker's answer while it holds the state
\* lock: the fan-out of upload and of delete runs with the lock released.
C17_NoRequestUnderLock == ~WaitsUnderLock

\* the step is the target selection of upload handler u: it reads state.ring
UploadBegins(u) == uploads[u].pc = "idle" /\ uploads'[u].pc = "fanout"

\* C18: every access to the master's tables and to the ring is made with
\* the state lock held; the target selection of an upload, which reads the
\* ring, therefore never happens while a writer holds the lock.
C18_LockSerialized ==
    [][\A u \in UploadIds : UploadBegins(u) => mu = "free"]_vars

\* C19: the tombstoneCleaner makes a pass every hour for as long as the
\* master runs, so a tombstone that is older than 30 days is removed by the
\* next pass: every tombstone past the retention eventually leaves
\* deletedFiles.
C19_TombstoneCollected ==
    \A f \in Names :
        (f \in DOMAIN deletedFiles /\ PastRetention(f)) ~> (f \notin DOMAIN deletedFiles)

\* the step replies 401 or 400 to a client
Refuses == reply'.status \in {400, 401}

\* C20: a request that the master refuses with 401 (wrong secret on
\* /upload or /delete) or 400 (missing file, disallowed extension, missing
\* parameter of /checksum) changes none of activeNodes, fileIndex,
\* checksums, deletedFiles and the ring, starts no handler and sends no
\* request to a worker.
C20_RefusedNoEffect ==
    [][Refuses => UNCHANGED <<masterVars, mu, uploads, del, disk>>]_vars

\* a request has just been refused by a master that holds files and
\* checksums
C20_Witness ==
    /\ reply.status \in {400, 401}
    /\ fileIndex # EmptyMap
    /\ checksums # EmptyMap

\* handler h of the worker has replied OK:H to its put
PutAcked(h) == puts[h].pc = "done" /\ puts[h].reply.status = 200

\* no os call of a handler of the worker failed for an outside reason, and
\* no delete reached the worker
OnlyPuts == rm.runs = 0 /\ \A h \in PutIds : ~puts[h].faulty

\* C21: when a worker's /upload of N has replied OK:H and no put or delete
\* of N began after that reply, a /verify of N against H on that worker
\* replies OK:H, whatever other puts of N were in flight when the reply
\* was sent.
C21_UploadVerifyFixedPoint ==
    \A h \in PutIds :
        (PutAcked(h) /\ puts[h].quiet /\ OnlyPuts)
            => VerifyReply(dir, inodes, puts[h].name, puts[h].reply.body[2])
                   = puts[h].reply

\* both /upload handlers of the worker have replied
BothPutsDone == \A h \in PutIds : puts[h].pc = "done"

\* the bytes of one whole payload
WholePayloads == {Chunks(d) : d \in Payloads}

\* C22: two puts of one name that run at once on a worker each write their
\* own temp file, both reply OK, and the blob is in the end exactly one of
\* the two payloads, never a mixture or a truncation.
C22_ConcurrentPuts ==
    (BothPutsDone /\ OnlyPuts)
        => /\ \A h \in PutIds : puts[h].reply.status = 200
           /\ \A n \in Names :
                  DataPath(n) \in DOMAIN dir
                      => ReadFile(dir, inodes, DataPath(n)) \in WholePayloads

\* the step ends a run of the worker's /delete handler
RmEnds == rm'.pc = "idle" /\ (rm.pc = "sum" \/ rm'.runs # rm.runs)

\* the reply of the run is 200 "OK" and neither the blob nor its sidecar is
\* left; a run before it gave the same reply and the same directory
RmDoneTwiceAsOnce ==
    /\ rm'.reply = WorkerReply(200, <<"OK">>)
    /\ rm'.last.after = NoSnapshot
    /\ rm.last # NoRun => rm'.last = rm.last

PutFailedAlone(h) ==
    /\ puts[h].pc = "done" /\ puts[h].reply.status = 500
    /\ puts[h].alone /\ puts[h].quiet

\* C24: a worker /upload of N that fails at any step replies 500 and
\* leaves no N.tmp, the N and N.checksum stored before are as they were,
\* and the block report names no blob for which the worker answered 500.
C24_FailedPutLeavesNothing ==
    \A h \in PutIds :
        PutFailedAlone(h)
            => /\ TmpPath(puts[h].name) \notin DOMAIN dir
               /\ Snapshot(dir, inodes, puts[h].name) = puts[h].prev
               /\ puts[h].prev.data = Absent => puts[h].name \notin getLocalFiles(dir)

\* the step stores a checksum for f: the ack of a replica of an upload of f
\* is read, or /checksum is called for f
StoresChecksum(f) ==
    \/ \E u \in UploadIds : uploads[u].name = f /\ uploads'[u].success # uploads[u].success
    \/ reply'.op = "checksum" /\ reply'.name = f

\* C25: the delete that takes the last replica of N out of fileIndex
\* takes checksums[N] away, a delete that leaves a replica keeps it, and an
\* absent checksums[N] appears only when an upload of N is acknowledged or
\* a checksum of N is stored through /checksum.
C25_ChecksumLifecycle ==
    [][/\ DeleteEnds =>
            IF del.name \in DOMAIN fileIndex'
            THEN checksums' = checksums
            ELSE del.name \notin DOMAIN checksums'
       /\ \A f \in Names :
            (f \notin DOMAIN checksums /\ f \in DOMAIN checksums') => StoresChecksum(f)]_vars

\* a replica of an upload of the name was acknowledged, then a delete took
\* the last replica and the checksum with it
C25_Witness ==
    /\ reply.op = "delete" /\ reply.status = 200
    /\ reply.name \notin DOMAIN fileIndex
    /\ reply.name \notin DOMAIN checksums
    /\ \E u \in UploadIds : uploads[u].name = reply.name /\ uploads[u].success # {}

\* C26: when /register of worker A reports N and N has a tombstone that
\* is 24 h old or older, the tombstone is removed, A is added to
\* fileIndex[N] and no delete is scheduled to A; when N has no tombstone A
\* is added to fileIndex[N]; in every case activeNodes[A] is set to now.
C26_ExpiredTombstoneReport ==
    [][\A a \in Workers :
         Registers(a) =>
            /\ a \in DOMAIN activeNodes' /\ activeNodes'[a] = "live"
            /\ \A f \in heartbeat[a].files :
                 (f \notin DOMAIN deletedFiles \/ deletedFiles[f] # "fresh")
                 => /\ f \notin DOMAIN deletedFiles'
                    /\ f \in DOMAIN fileIndex' /\ a \in fileIndex'[f]
                    /\ <<a, f>> \in tombDeletes' => <<a, f>> \in tombDeletes]_vars

\* a block report has dropped the tombstone of a name and the reporting
\* worker is indexed for it
C26_Witness ==
    \E a \in Workers, f \in Names :
        /\ hist[f].revived
        /\ f \notin DOMAIN deletedFiles
        /\ f \in DOMAIN fileIndex /\ a \in fileIndex[f]
        /\ a \in DOMAIN activeNodes /\ activeNodes[a] = "live"

\* the step is the end of a delete of a name whose replica set was empty
\* when handleDelete read it: 404 at once, or the reply after an empty
\* fan-out
DeletesNothing(f) ==
    \/ DeleteBegin(f) /\ f \notin DOMAIN fileIndex
    \/ DeleteEnds /\ del.name = f /\ fileIndex[f] = {}

\* C27: an authenticated delete of N replies 404 and changes no state
\* whenever the replica set of N it reads is empty: when N is no key of
\* fileIndex, and when N is a key whose set has become empty.
C27_DeleteOfNothing ==
    [][\A f \in Names :
         DeletesNothing(f)
         => /\ reply'.status = 404
            /\ UNCHANGED masterVars]_vars

\* C28: a pass of the replication fixer starts a copy of N from S to T
\* only if fileIndex[N] holds one address and fewer than 2, at least 2
\* workers are active, N has no tombstone, S is in fileIndex[N], T is
\* among ring.GetNodes(N, 2) and T is not in fileIndex[N]; with one active
\* worker it starts no copy.
C28_FixerGuard ==
    [][\A c \in copies' \ copies :
         /\ c[1] \in DOMAIN fileIndex
         /\ Cardinality(fileIndex[c[1]]) = 1
         /\ Cardinality(DOMAIN activeNodes) >= 2
         /\ c[1] \notin DOMAIN deletedFiles
         /\ c[2] \in fileIndex[c[1]]
         /\ c[3] \in Elems(GetNodes(ring, crc.key[c[1]], 2))
         /\ c[3] \notin fileIndex[c[1]]]_vars

\* a pass has spawned a copy towards a worker that is active and holds no
\* replica
C28_Witness ==
    \E c \in copies :
        /\ c[1] \in DOMAIN fileIndex
        /\ fileIndex[c[1]] = {c[2]}
        /\ c[3] \in DOMAIN activeNodes
        /\ c[2] # c[3]

\* the step is a pass of the fixer that spawns a copy, or the end of a copy
FixerActs == copies' # copies

\* C29: a pass of the replication fixer and the copies it spawns leave
\* activeNodes, fileIndex, checksums, deletedFiles and the ring as they
\* were, whether the copy succeeds or fails; the new replica enters
\* fileIndex[N] only with a block report of the target.
C29_FixerFrame ==
    [][/\ FixerActs => UNCHANGED masterVars
       /\ \A f \in Names, w \in Workers :
            (/\ f \in DOMAIN fileIndex' /\ w \in fileIndex'[f]
             /\ w \notin Candidates(f)
             /\ \A u \in UploadIds : ~UploadEnds(u))
            => Registers(w) /\ f \in heartbeat[w].files]_vars

\* no upload of the name ever began, and a copy has stored the blob of the
\* one indexed holder on w1, whose directory was empty at the start; w1 is
\* not yet in the replica set
C29_Witness ==
    \E f \in Names, s \in Workers :
        /\ copies = {}
        /\ hist[f].rebuilding
        /\ f \in DOMAIN fileIndex /\ fileIndex[f] = {s} /\ s # "w1"
        /\ f \in DOMAIN disk[s] /\ f \in DOMAIN disk["w1"]
        /\ disk["w1"][f] = disk[s][f]

\* the step answers a /download, a /play or a /verify
Reads == reply'.op \in {"download", "verify"}

\* C30: the master's /download, /play and /verify leave activeNodes,
\* fileIndex, checksums, deletedFiles and the ring as they were, also when
\* a replica fails or its checksum does not match: the failing replica
\* stays in fileIndex[N].
C30_ReadsChangeNothing ==
    [][Reads => UNCHANGED <<masterVars, mu, disk, tombDeletes>>]_vars

\* a /verify has found a replica of the name unreachable, missing or
\* mismatching, and the replica is still indexed
C30_Witness ==
    /\ reply.op = "verify" /\ reply.status = 200
    /\ reply.name \in DOMAIN fileIndex
    /\ reply.count < Cardinality(fileIndex[reply.name])

\* C31: a /get-checksum of N that finds no checksums[N] and gets a checksum
\* C from a replica returns C and leaves checksums[N] = C; one that gets
\* none replies 404 and leaves checksums as it was.
C31_LazyFetchStores ==
    [][reply'.op = "get-checksum" =>
         IF reply'.status = 200 /\ reply'.name \notin DOMAIN checksums
         THEN checksums' = Put(checksums, reply'.name, reply'.body)
         ELSE checksums' = checksums]_vars

\* no handler of the worker is between its first and its last os call, and
\* no os call of any handler failed for an outside reason
WorkerAtRest ==
    /\ rm.pc = "idle" /\ ~rm.faulty
    /\ \A h \in PutIds : puts[h].pc \in {"idle", "done"} /\ ~puts[h].faulty

\* C32: on a worker, whenever no put and no delete of N is in progress, N
\* is on disk iff N.checksum is, and N.checksum holds the CRC32 of the
\* bytes of N, after any interleaving of puts and deletes of N.
C32_SidecarMatchesData ==
    WorkerAtRest =>
        \A n \in Names :
            /\ DataPath(n) \in DOMAIN dir <=> ChecksumPath(n) \in DOMAIN dir
            /\ DataPath(n) \in DOMAIN dir
                 => ReadFile(dir, inodes, ChecksumPath(n))
                        = Crc(ReadFile(dir, inodes, DataPath(n)))

\* handler u returns 200 after another upload stored the name on a worker
\* while u ran, and no upload handler is left running
LastOfTwoEnds(u) ==
    /\ UploadEnds(u) /\ reply'.status = 200
    /\ ~uploads[u].clean
    /\ \A v \in Uploaders : uploads'[v].pc = "idle"

\* C33: of two uploads of one name that run at once with different
\* payloads, the one that returns last decides: after both have returned
\* checksums[N] is the CRC32 of its payload and fileIndex[N] is the replica
\* set it recorded.
C33_LastUploadWins ==
    [][\A u \in Uploaders :
         LastOfTwoEnds(u)
         => /\ checksums'[uploads[u].name] = Checksum(uploads[u].data)
            /\ fileIndex'[uploads[u].name] = uploads[u].success]_vars

\* C34: whenever the state lock is free, the addresses that own a virtual
\* position of the ring are the keys of activeNodes, and every address has
\* put R = 10 positions on the ring and owns no more than 10, after any
\* first and repeated heartbeats, expiries and re-registrations.
C34_RingIsActiveNodes ==
    mu = "free" =>
        /\ RingOwners = DOMAIN activeNodes
        /\ Len(ring.nodes) = Replicas * Cardinality(DOMAIN activeNodes)
        /\ \A a \in Workers :
             Cardinality({p \in DOMAIN ring.nodeMap : ring.nodeMap[p] = a}) <= Replicas

\* a worker that held a name has been expired, the ring has been rebuilt
\* and holds the one worker that is still active
C34_Witness ==
    /\ mu = "free"
    /\ \E f \in Names : f \in DOMAIN fileIndex /\ fileIndex[f] = {}
    /\ Cardinality(DOMAIN activeNodes) = 1
    /\ Len(ring.nodes) = Replicas

\* C35: a worker that sends its heartbeat every 5 s is never taken out of
\* activeNodes, of a replica set of fileIndex or of the ring by
\* healthChecker, whatever uploads, deletes and background loops run
\* beside it.
C35_LiveNeverExpired ==
    [][/\ DOMAIN activeNodes \subseteq DOMAIN activeNodes'
       /\ RingOwners \subseteq RingOwners'
       /\ ~DeleteEnds =>
            \A f \in (DOMAIN fileIndex) \cap (DOMAIN fileIndex') :
                fileIndex[f] \subseteq fileIndex'[f]]_vars

\* C36: once a /register of worker A has been processed, A is in
\* fileIndex[N] only if the block report held N: a report that omits N
\* takes A out of fileIndex[N].
C36_IndexTracksReports ==
    [][\A a \in Workers :
         Registers(a) =>
            \A f \in Names :
                (f \in DOMAIN fileIndex' /\ a \in fileIndex'[f]) => f \in heartbeat[a].files]_vars

\* C37: every task that takes the state lock releases it before it blocks
\* or sleeps again, the tombstoneCleaner after each of its passes as well:
\* a held lock always becomes free again, so a waiting request gets it.
C37_LockReleased == (mu # "free") ~> (mu = "free")

\* C38: download, play, verify and get-checksum range over the replica
\* set under the lock or over a copy of their own: while a handler is in
\* its loop no register, upload, delete or healthChecker changes the map
\* it ranges over, and the process is never stopped by a concurrent map
\* read and write.
C38_ScanIsSnapshot ==
    [][/\ (scan.pc = "range" /\ ScanShares) =>
            /\ scan.name \in DOMAIN fileIndex'
            /\ fileIndex'[scan.name] = fileIndex[scan.name]
       /\ scan'.pc # "fatal"]_vars

\* C39: for every ring that AddNode and the rebuild produce, with positions
\* on which two addresses collide as well, and every key and count, the
\* clockwise walk of GetNodes stops: it makes no more passes through its
\* loop than the ring has positions, and ends with count addresses or with
\* as many as the ring counts.
C39_GetNodesTerminates ==
    \A hash \in HashValues, k \in Counts :
        ring.nodes # <<>> =>
            /\ WalkSteps(ring, Search(ring.nodes, hash), <<>>, k, 0) <= Len(ring.nodes)
            /\ Len(GetNodes(ring, hash, k)) = Min(k, RingCapacity(ring))

\* two addresses are on the ring and share a position, and a walk for two
\* addresses has stopped with one, the ring counting one
C39_Witness ==
    /\ Len(ring.nodes) = 2 * Replicas
    /\ Cardinality(DOMAIN ring.nodeMap) < Len(ring.nodes)
    /\ \E hash \in HashValues :
         /\ WalkSteps(ring, Search(ring.nodes, hash), <<>>, 2, 0) \in 1..Len(ring.nodes)
         /\ Len(GetNodes(ring, hash, 2)) = 1

====
